---- MODULE Spec2Model ----
(***************************************************************************)
(* Weighted graph store (Graph<int>) with its four algorithms: mst_prim,   *)
(* mst_kruskal, mst_boruvka and shortest_path, plus the DSU they use and   *)
(* Environment::findOptimalRoute, which forwards to shortest_path.         *)
(*                                                                         *)
(* The vertex type is int, as in every instantiation of the repository     *)
(* (tests and Environment use Graph<int>).  A std::map is a function whose *)
(* DOMAIN is its key set; a std::list / std::vector is a sequence.         *)
(***************************************************************************)
EXTENDS Integers, Sequences, FiniteSets, TLC

\* ---------------------------------------------------------------- bounds
\* Vertex keys are 0..MaxKey, weights are -1..MaxWeight, and a graph holds at
\* most MaxEdges edges (an undirected edge with its mirror counts once).
MaxKey == 2
MaxWeight == 1
MaxEdges == 3
\* A DSU object on its own holds at most MaxDsuSize elements.
MaxDsuSize == 4

Keys == 0 .. MaxKey
Weights == (0 - 1) .. MaxWeight

\* A value-initialised int: what std::map::operator[] inserts for a missing key
\* of map<int,int> (parent) and, as 0.0, of map<int,double> (dist).
DefaultVertex == 0

VARIABLES
    directed,   \* Graph::directed, fixed at construction
    adjList,    \* Graph::adjList : key -> sequence of <<neighbour, weight>>
    call,       \* the last algorithm call and its arguments (NoCall after a mutation)
    ret,        \* what that call returned
    pc,         \* position inside a running algorithm ("idle" between calls)
    loc         \* the running algorithm's local variables

vars == <<directed, adjList, call, ret, pc, loc>>

\* ------------------------------------------------------- generic helpers
MinOf(S) == CHOOSE x \in S : \A y \in S : x <= y

RECURSIVE KeySeq(_)
\* The keys of a std::map in iteration (ascending) order.
KeySeq(S) == IF S = {} THEN <<>> ELSE <<MinOf(S)>> \o KeySeq(S \ {MinOf(S)})

RECURSIVE Reverse(_)
Reverse(s) == IF s = <<>> THEN <<>> ELSE Append(Reverse(Tail(s)), Head(s))

\* C++ passes these arguments by value: an argument is evaluated once, at the
\* call, and the body works on the value.  ByValue(a, F) is F(a) with a
\* evaluated once (ByValue2, ByValue3 likewise).
ByValue(a, F(_)) == CHOOSE r \in {F(x) : x \in {a}} : TRUE
ByValue2(a, b, F(_, _)) == CHOOSE r \in {F(x, y) : x \in {a}, y \in {b}} : TRUE
ByValue3(a, b, c, F(_, _, _)) ==
    CHOOSE r \in {F(x, y, z) : x \in {a}, y \in {b}, z \in {c}} : TRUE

\* ------------------------------------------------------------ Graph store
\* list::remove_if(edge.first == v)
remove_if(lst, v) == SelectSeq(lst, LAMBDA e : e[1] # v)

add_vertex(adj, v) ==
    IF v \in DOMAIN adj THEN adj
    ELSE [x \in DOMAIN adj \cup {v} |-> IF x = v THEN <<>> ELSE adj[x]]

\* Mutant of remove_vertex: only the key erased, the other lists left alone.
remove_vertex_erase_only(adj, v) ==
    [x \in DOMAIN adj \ {v} |-> adj[x]]

remove_vertex(adj, v) ==
    [x \in DOMAIN adj \ {v} |-> remove_if(adj[x], v)]

\* Mutant of add_edge: the `u != v` test on the mirror entry left out.
add_edge_mirror_loops(adj, dir, u, v, w) ==
    LET a1 == add_vertex(add_vertex(adj, u), v)
        a2 == [a1 EXCEPT ![u] = Append(@, <<v, w>>)]
    IN  IF ~dir THEN [a2 EXCEPT ![v] = Append(@, <<u, w>>)] ELSE a2

add_edge(adj, dir, u, v, w) ==
    LET a1 == add_vertex(add_vertex(adj, u), v)
        a2 == [a1 EXCEPT ![u] = Append(@, <<v, w>>)]
    IN  IF ~dir /\ u # v THEN [a2 EXCEPT ![v] = Append(@, <<u, w>>)] ELSE a2

\* Mutant of remove_edge: the mirror entries v -> u left in place.
remove_edge_one_way(adj, dir, u, v) ==
    IF u \in DOMAIN adj THEN [adj EXCEPT ![u] = remove_if(@, v)] ELSE adj

\* Mutant of remove_edge: the `adjList.find(u) != adjList.end()` test left out,
\* so that adjList[u] registers u.
remove_edge_unguarded(adj, dir, u, v) ==
    LET a1 == [add_vertex(adj, u) EXCEPT ![u] = remove_if(@, v)]
    IN  IF ~dir /\ u # v /\ v \in DOMAIN a1
        THEN [a1 EXCEPT ![v] = remove_if(@, u)] ELSE a1

remove_edge(adj, dir, u, v) ==
    LET a1 == IF u \in DOMAIN adj THEN [adj EXCEPT ![u] = remove_if(@, v)] ELSE adj
    IN  IF ~dir /\ u # v /\ v \in DOMAIN a1
        THEN [a1 EXCEPT ![v] = remove_if(@, u)] ELSE a1

\* Number of edges stored: list entries, a mirrored pair counted once.
RECURSIVE EntryCount(_, _)
EntryCount(adj, ks) ==
    IF ks = <<>> THEN 0 ELSE Len(adj[Head(ks)]) + EntryCount(adj, Tail(ks))

RECURSIVE LoopCount(_, _)
LoopCount(adj, ks) ==
    IF ks = <<>> THEN 0
    ELSE Len(SelectSeq(adj[Head(ks)], LAMBDA e : e[1] = Head(ks)))
         + LoopCount(adj, Tail(ks))

EdgeCount(adj, dir) ==
    LET n == EntryCount(adj, KeySeq(DOMAIN adj))
        l == LoopCount(adj, KeySeq(DOMAIN adj))
    IN  IF dir THEN n ELSE l + ((n - l) \div 2)

\* ------------------------------------------------- std::priority_queue
\* priority_queue<T, vector<T>, greater<T>> over tuples: top() is the least
\* element in lexicographic order.  The queue is kept as an ascending sequence.
RECURSIVE TupLess(_, _)
TupLess(a, b) ==
    IF a = <<>> \/ b = <<>> THEN a = <<>> /\ b # <<>>
    ELSE Head(a) < Head(b) \/ (Head(a) = Head(b) /\ TupLess(Tail(a), Tail(b)))

RECURSIVE pq_push(_, _)
pq_push(pq, e) ==
    IF pq = <<>> THEN <<e>>
    ELSE IF TupLess(e, Head(pq)) THEN <<e>> \o pq
    ELSE ByValue2(Tail(pq), e, LAMBDA t, x : <<Head(pq)>> \o pq_push(t, x))

RECURSIVE pq_push_all(_, _)
pq_push_all(pq, es) ==
    IF es = <<>> THEN pq
    ELSE ByValue2(pq_push(pq, Head(es)), Tail(es), LAMBDA q, t : pq_push_all(q, t))

pq_top(pq) == Head(pq)
pq_pop(pq) == Tail(pq)

\* ------------------------------------------------------------------ Prim
EmptyMst == [edges |-> <<>>, weight |-> 0]

RECURSIVE MapSeq3(_, _)
\* <<to, w>> entries of vertex `from` as queue candidates <<w, from, to>>
MapSeq3(from, lst) ==
    IF lst = <<>> THEN <<>>
    ELSE <<<<Head(lst)[2], from, Head(lst)[1]>>>> \o MapSeq3(from, Tail(lst))

\* Mutant of prim_init: `inMST[start] = true` left out.
prim_init_start_unmarked(adj) ==
    LET start == MinOf(DOMAIN adj)
    IN  [inMST |-> [v \in DOMAIN adj |-> FALSE],
         pq |-> pq_push_all(<<>>, MapSeq3(start, adj[start])),
         totalWeight |-> 0,
         mstEdges |-> <<>>]

prim_init(adj) ==
    LET start == MinOf(DOMAIN adj)
    IN  [inMST |-> [v \in DOMAIN adj |-> v = start],
         pq |-> pq_push_all(<<>>, MapSeq3(start, adj[start])),
         totalWeight |-> 0,
         mstEdges |-> <<>>]

\* Mutant of prim_step: the filter `if (!inMST[to])` on the pushes left out.
prim_step_unfiltered_push(adj, s) ==
    LET top == pq_top(s.pq)
        v == top[3]
        pq1 == pq_pop(s.pq)
    IN  IF s.inMST[v] THEN [s EXCEPT !.pq = pq1]
        ELSE [inMST |-> [s.inMST EXCEPT ![v] = TRUE],
              pq |-> ByValue2(pq1, MapSeq3(v, adj[v]),
                              LAMBDA q, es : pq_push_all(q, es)),
              totalWeight |-> s.totalWeight + top[1],
              mstEdges |-> Append(s.mstEdges, <<top[2], v>>)]

\* Mutant of prim_step: the stale-entry test `if (inMST[v]) continue` left out.
prim_step_no_stale_check(adj, s) ==
    LET top == pq_top(s.pq)
        v == top[3]
        inM == [s.inMST EXCEPT ![v] = TRUE]
        fresh == SelectSeq(adj[v], LAMBDA e : ~inM[e[1]])
    IN  [inMST |-> inM,
         pq |-> ByValue2(pq_pop(s.pq), MapSeq3(v, fresh),
                         LAMBDA q, es : pq_push_all(q, es)),
         totalWeight |-> s.totalWeight + top[1],
         mstEdges |-> Append(s.mstEdges, <<top[2], v>>)]

\* One iteration of the main loop (pq not empty).
prim_step(adj, s) ==
    LET top == pq_top(s.pq)
        weight == top[1]
        u == top[2]
        v == top[3]
        pq1 == pq_pop(s.pq)
    IN  IF s.inMST[v] THEN [s EXCEPT !.pq = pq1]
        ELSE LET inM == [s.inMST EXCEPT ![v] = TRUE]
                 fresh == SelectSeq(adj[v], LAMBDA e : ~inM[e[1]])
             IN  [inMST |-> inM,
                  pq |-> ByValue2(pq1, MapSeq3(v, fresh),
                                  LAMBDA q, es : pq_push_all(q, es)),
                  totalWeight |-> s.totalWeight + weight,
                  mstEdges |-> Append(s.mstEdges, <<u, v>>)]

RECURSIVE prim_loop(_, _)
prim_loop(adj, s) ==
    IF s.pq = <<>> THEN s
    ELSE ByValue(prim_step(adj, s), LAMBDA s1 : prim_loop(adj, s1))

mst_prim(adj, dir) ==
    IF DOMAIN adj = {} THEN EmptyMst
    ELSE IF dir THEN EmptyMst
    ELSE LET s == prim_loop(adj, prim_init(adj))
         IN  [edges |-> s.mstEdges, weight |-> s.totalWeight]

\* ------------------------------------------------------------------- DSU
\* DSU(int n): parent[i] = i, rank[i] = 0
dsu_new(n) == [parent |-> [i \in 0 .. n - 1 |-> i], rank |-> [i \in 0 .. n - 1 |-> 0]]

RECURSIVE find_set_no_compression(_, _)
\* Mutant of find_set: the root returned, `parent[v] =` left out.
find_set_no_compression(parent, v) ==
    IF v = parent[v] THEN [root |-> v, parent |-> parent]
    ELSE ByValue(find_set_no_compression(parent, parent[v]),
                 LAMBDA r : [root |-> r.root, parent |-> parent])

RECURSIVE find_set(_, _)
\* find_set with path compression; returns the root and the rewritten parent array
find_set(parent, v) ==
    IF v = parent[v] THEN [root |-> v, parent |-> parent]
    ELSE ByValue(find_set(parent, parent[v]),
                 LAMBDA r : [root |-> r.root, parent |-> [r.parent EXCEPT ![v] = r.root]])

\* Mutant of union_roots: `if (rank[a] < rank[b]) swap(a, b)` left out.
union_roots_no_rank_swap(d, a1, b1, p1) ==
    IF a1 # b1
    THEN [ok |-> TRUE,
          dsu |-> [parent |-> [p1 EXCEPT ![b1] = a1],
                   rank |-> IF d.rank[a1] = d.rank[b1]
                            THEN [d.rank EXCEPT ![a1] = @ + 1]
                            ELSE d.rank]]
    ELSE [ok |-> FALSE, dsu |-> [parent |-> p1, rank |-> d.rank]]

\* the body of union_sets once a and b hold the two roots (p1: parent after
\* the two find_set calls)
union_roots(d, a1, b1, p1) ==
    IF a1 # b1
    THEN LET a == IF d.rank[a1] < d.rank[b1] THEN b1 ELSE a1
             b == IF d.rank[a1] < d.rank[b1] THEN a1 ELSE b1
         IN  [ok |-> TRUE,
              dsu |-> [parent |-> [p1 EXCEPT ![b] = a],
                       rank |-> IF d.rank[a] = d.rank[b]
                                THEN [d.rank EXCEPT ![a] = @ + 1]
                                ELSE d.rank]]
    ELSE [ok |-> FALSE, dsu |-> [parent |-> p1, rank |-> d.rank]]

union_sets(d, a0, b0) ==
    ByValue(find_set(d.parent, a0), LAMBDA fa :
        ByValue(find_set(fa.parent, b0), LAMBDA fb :
            union_roots(d, fa.root, fb.root, fb.parent)))

\* ------------------------------------------- edge list shared by Kruskal/Boruvka
RECURSIVE collect_list(_, _, _)
\* the inner loop over u's neighbours: acc = [edges, usedEdges]
collect_list(u, lst, acc) ==
    IF lst = <<>> THEN acc
    ELSE LET v == Head(lst)[1]
             w == Head(lst)[2]
         IN  IF u # v /\ <<v, u>> \notin acc.usedEdges
             THEN ByValue2(Tail(lst),
                           [edges |-> Append(acc.edges, <<w, u, v>>),
                            usedEdges |-> acc.usedEdges \cup {<<u, v>>}],
                           LAMBDA t, a : collect_list(u, t, a))
             ELSE ByValue(Tail(lst), LAMBDA t : collect_list(u, t, acc))

RECURSIVE collect_keys(_, _, _)
collect_keys(adj, ks, acc) ==
    IF ks = <<>> THEN acc
    ELSE ByValue2(Tail(ks), collect_list(Head(ks), adj[Head(ks)], acc),
                  LAMBDA t, a : collect_keys(adj, t, a))

collect_edges(adj) ==
    ByValue(KeySeq(DOMAIN adj),
            LAMBDA ks : collect_keys(adj, ks, [edges |-> <<>>, usedEdges |-> {}]).edges)

\* vertexToIndex: the i-th key in ascending order gets index i (from 0)
vertexToIndex(adj) ==
    [v \in DOMAIN adj |-> Cardinality({x \in DOMAIN adj : x < v})]

\* --------------------------------------------------------------- Kruskal
\* Mutant of sort_by_weight: the comparator reversed (descending weights).
sort_by_weight_descending(edges) ==
    LET n == Len(edges)
        perms == {p \in [1 .. n -> 1 .. n] :
                     /\ \A i, j \in 1 .. n : i # j => p[i] # p[j]
                     /\ \A i \in 1 .. n - 1 : edges[p[i]][1] >= edges[p[i + 1]][1]}
    IN  {[i \in 1 .. n |-> edges[p[i]]] : p \in perms}

\* std::sort with the comparator get<0>(a) < get<0>(b): the result is ordered
\* by weight; the order among equal weights is unspecified, so every such
\* permutation is a possible outcome.
sort_by_weight(edges) ==
    LET n == Len(edges)
        perms == {p \in [1 .. n -> 1 .. n] :
                     /\ \A i, j \in 1 .. n : i # j => p[i] # p[j]
                     /\ \A i \in 1 .. n - 1 : edges[p[i]][1] <= edges[p[i + 1]][1]}
    IN  {[i \in 1 .. n |-> edges[p[i]]] : p \in perms}

\* Mutant of kruskal_step: the `if (setU != setV)` test left out.
kruskal_step_no_cycle_check(idx, s, e) ==
    ByValue(find_set(s.dsu.parent, idx[e[2]]), LAMBDA fu :
        ByValue(find_set(fu.parent, idx[e[3]]), LAMBDA fv :
            LET d1 == [parent |-> fv.parent, rank |-> s.dsu.rank]
            IN  [dsu |-> union_sets(d1, fu.root, fv.root).dsu,
                 mstEdges |-> Append(s.mstEdges, <<e[2], e[3]>>),
                 totalWeight |-> s.totalWeight + e[1]]))

\* One iteration of the main Kruskal loop on edge e = <<w, u, v>>.
kruskal_step(idx, s, e) ==
    ByValue(find_set(s.dsu.parent, idx[e[2]]), LAMBDA fu :
        ByValue(find_set(fu.parent, idx[e[3]]), LAMBDA fv :
            LET d1 == [parent |-> fv.parent, rank |-> s.dsu.rank]
            IN  IF fu.root # fv.root
                THEN [dsu |-> union_sets(d1, fu.root, fv.root).dsu,
                      mstEdges |-> Append(s.mstEdges, <<e[2], e[3]>>),
                      totalWeight |-> s.totalWeight + e[1]]
                ELSE [s EXCEPT !.dsu = d1]))

RECURSIVE kruskal_loop(_, _, _)
kruskal_loop(idx, s, edges) ==
    IF edges = <<>> THEN s
    ELSE ByValue2(kruskal_step(idx, s, Head(edges)), Tail(edges),
                  LAMBDA s1, t : kruskal_loop(idx, s1, t))

kruskal_init(adj) ==
    [dsu |-> dsu_new(Cardinality(DOMAIN adj)), mstEdges |-> <<>>, totalWeight |-> 0]

\* The set of results mst_kruskal may return (one per outcome of the sort).
mst_kruskal(adj, dir) ==
    IF DOMAIN adj = {} THEN {EmptyMst}
    ELSE IF dir THEN {EmptyMst}
    ELSE {ByValue(kruskal_loop(vertexToIndex(adj), kruskal_init(adj), sorted),
                  LAMBDA s : [edges |-> s.mstEdges, weight |-> s.totalWeight])
            : sorted \in sort_by_weight(collect_edges(adj))}

\* --------------------------------------------------------------- Boruvka
\* edges[i] of the code (0-based) is edges[i + 1] here.
\* the body of the first inner loop for edge i: c = [parent, cheapest]
boruvka_scan_edge(edges, idx, i, c) ==
    ByValue(find_set(c.parent, idx[edges[i + 1][2]]), LAMBDA f1 :
        ByValue(find_set(f1.parent, idx[edges[i + 1][3]]), LAMBDA f2 :
            LET w == edges[i + 1][1]
                set1 == f1.root
                set2 == f2.root
            IN  IF set1 = set2 THEN [c EXCEPT !.parent = f2.parent]
                ELSE LET ch1 == IF c.cheapest[set1] = -1
                                   \/ edges[c.cheapest[set1] + 1][1] > w
                                THEN [c.cheapest EXCEPT ![set1] = i] ELSE c.cheapest
                         ch2 == IF ch1[set2] = -1 \/ edges[ch1[set2] + 1][1] > w
                                THEN [ch1 EXCEPT ![set2] = i] ELSE ch1
                     IN  [parent |-> f2.parent, cheapest |-> ch2]))

RECURSIVE boruvka_scan(_, _, _, _)
\* first inner loop, from edge i on
boruvka_scan(edges, idx, i, c) ==
    IF i >= Len(edges) THEN c
    ELSE ByValue2(i + 1, boruvka_scan_edge(edges, idx, i, c),
                  LAMBDA j, c1 : boruvka_scan(edges, idx, j, c1))

\* Mutant of boruvka_merge_component: the chosen edge admitted without the
\* `set1 == set2` test and whatever union_sets returns.
boruvka_merge_component_unchecked(edges, idx, cheapest, i, s) ==
    IF cheapest[i] = -1 THEN s
    ELSE LET e == edges[cheapest[i] + 1]
         IN  ByValue(union_sets(s.dsu, idx[e[2]], idx[e[3]]), LAMBDA un :
                 [dsu |-> un.dsu,
                  mstEdges |-> Append(s.mstEdges, <<e[2], e[3]>>),
                  totalWeight |-> s.totalWeight + e[1],
                  numTrees |-> s.numTrees - 1,
                  anyUnion |-> TRUE])

\* the body of the second inner loop for component index i; s carries anyUnion
boruvka_merge_component(edges, idx, cheapest, i, s) ==
    IF cheapest[i] = -1 THEN s
    ELSE LET e == edges[cheapest[i] + 1]
         IN  ByValue(find_set(s.dsu.parent, idx[e[2]]), LAMBDA f1 :
             ByValue(find_set(f1.parent, idx[e[3]]), LAMBDA f2 :
                 LET d1 == [parent |-> f2.parent, rank |-> s.dsu.rank]
                 IN  IF f1.root = f2.root THEN [s EXCEPT !.dsu = d1]
                     ELSE ByValue(union_sets(d1, f1.root, f2.root), LAMBDA un :
                              IF un.ok
                              THEN [dsu |-> un.dsu,
                                    mstEdges |-> Append(s.mstEdges, <<e[2], e[3]>>),
                                    totalWeight |-> s.totalWeight + e[1],
                                    numTrees |-> s.numTrees - 1,
                                    anyUnion |-> TRUE]
                              ELSE [s EXCEPT !.dsu = un.dsu])))

RECURSIVE boruvka_merge(_, _, _, _, _, _)
\* second inner loop, from component index i on
boruvka_merge(edges, idx, n, cheapest, i, s) ==
    IF i >= n THEN s
    ELSE ByValue2(i + 1, boruvka_merge_component(edges, idx, cheapest, i, s),
                  LAMBDA j, s1 : boruvka_merge(edges, idx, n, cheapest, j, s1))

boruvka_init(adj) ==
    [dsu |-> dsu_new(Cardinality(DOMAIN adj)),
     mstEdges |-> <<>>,
     totalWeight |-> 0,
     numTrees |-> Cardinality(DOMAIN adj),
     anyUnion |-> TRUE]

\* One round of the main loop (numTrees > 1); anyUnion tells whether it merged.
boruvka_round(adj, s) ==
    ByValue3(collect_edges(adj), vertexToIndex(adj), Cardinality(DOMAIN adj),
        LAMBDA edges, idx, n :
            ByValue(boruvka_scan(edges, idx, 0,
                                 [parent |-> s.dsu.parent,
                                  cheapest |-> [i \in 0 .. n - 1 |-> -1]]),
                LAMBDA c :
                    boruvka_merge(edges, idx, n, c.cheapest, 0,
                        [s EXCEPT !.dsu = [parent |-> c.parent, rank |-> s.dsu.rank],
                                  !.anyUnion = FALSE])))

\* Mutant of boruvka_continues: the `if (!anyUnion) break;` left out.
boruvka_continues_no_break(s) == s.numTrees > 1

\* while (numTrees > 1) { ...; if (!anyUnion) break; }
boruvka_continues(s) == s.numTrees > 1 /\ s.anyUnion

RECURSIVE boruvka_loop(_, _)
boruvka_loop(adj, s) ==
    IF boruvka_continues(s)
    THEN ByValue(boruvka_round(adj, s), LAMBDA s1 : boruvka_loop(adj, s1))
    ELSE s

\* Mutant of mst_boruvka: the `if (directed) return` left out.
mst_boruvka_no_directed_check(adj, dir) ==
    IF Cardinality(DOMAIN adj) = 0 THEN EmptyMst
    ELSE ByValue(boruvka_loop(adj, boruvka_init(adj)),
                 LAMBDA s : [edges |-> s.mstEdges, weight |-> s.totalWeight])

mst_boruvka(adj, dir) ==
    IF dir THEN EmptyMst
    ELSE IF Cardinality(DOMAIN adj) = 0 THEN EmptyMst
    ELSE ByValue(boruvka_loop(adj, boruvka_init(adj)),
                 LAMBDA s : [edges |-> s.mstEdges, weight |-> s.totalWeight])

\* -------------------------------------------------------------- Dijkstra
\* map<int,double> dist: a value is Infinity or Fin(d).  Weights are ints, so
\* every finite distance is an integer-valued double and static_cast<int>
\* (truncation) of it is that integer.
Infinity == <<>>
Fin(d) == <<d>>
static_cast_int(x) == x[1]

\* std::map::operator[] : inserts a value-initialised entry for a missing key
map_index(m, k, dflt) ==
    IF k \in DOMAIN m THEN m
    ELSE [y \in DOMAIN m \cup {k} |-> IF y = k THEN dflt ELSE m[y]]

map_put(m, k, x) == [y \in DOMAIN m \cup {k} |-> IF y = k THEN x ELSE m[y]]

\* The vector `path` cannot grow without limit: push_back beyond this size
\* ends the call with std::bad_alloc.  Every path over distinct keys fits.
VectorMaxSize == Cardinality(Keys) + 1

\* Mutant of dijkstra_init: distances start at 0 instead of infinity.
dijkstra_init_zero(adj, start) ==
    [adj |-> adj,
     dist |-> map_put([v \in DOMAIN adj |-> Fin(0)], start, Fin(0)),
     parent |-> map_put(<<>>, start, start),
     pq |-> <<<<0, start>>>>]

dijkstra_init(adj, start) ==
    [adj |-> adj,
     dist |-> map_put([v \in DOMAIN adj |-> Infinity], start, Fin(0)),
     parent |-> map_put(<<>>, start, start),
     pq |-> <<<<0, start>>>>]

\* Mutant of relax_edge: a distance once found is never improved.
relax_edge_first_found(s, u, e) ==
    LET v == e[1]
        w == e[2]
    IN  ByValue(map_index(map_index(s.dist, u, Fin(0)), v, Fin(0)), LAMBDA d0 :
            IF d0[u] # Infinity /\ d0[v] = Infinity
            THEN [adj |-> s.adj,
                  dist |-> [d0 EXCEPT ![v] = Fin(d0[u][1] + w)],
                  parent |-> map_put(s.parent, v, u),
                  pq |-> pq_push(s.pq, <<d0[u][1] + w, v>>)]
            ELSE [s EXCEPT !.dist = d0])

\* if (dist[u] + w < dist[v]) { dist[v] = ...; parent[v] = u; pq.push(...); }
\* for one entry e = (v, w) of adjList[u]
relax_edge(s, u, e) ==
    LET v == e[1]
        w == e[2]
    IN  ByValue(map_index(map_index(s.dist, u, Fin(0)), v, Fin(0)), LAMBDA d0 :
            IF d0[u] # Infinity /\ (d0[v] = Infinity \/ d0[u][1] + w < d0[v][1])
            THEN [adj |-> s.adj,
                  dist |-> [d0 EXCEPT ![v] = Fin(d0[u][1] + w)],
                  parent |-> map_put(s.parent, v, u),
                  pq |-> pq_push(s.pq, <<d0[u][1] + w, v>>)]
            ELSE [s EXCEPT !.dist = d0])

RECURSIVE relax(_, _, _)
\* for (auto const& [v, w] : adjList[u]) ...
relax(s, u, lst) ==
    IF lst = <<>> THEN s
    ELSE ByValue2(relax_edge(s, u, Head(lst)), Tail(lst),
                  LAMBDA s1, t : relax(s1, u, t))

\* One iteration of the Dijkstra loop (pq not empty).
dijkstra_step(s) ==
    LET d == pq_top(s.pq)[1]
        u == pq_top(s.pq)[2]
    IN  ByValue([s EXCEPT !.pq = pq_pop(s.pq), !.dist = map_index(s.dist, u, Fin(0))],
            LAMBDA s1 :
                IF s1.dist[u] # Infinity /\ d > s1.dist[u][1] THEN s1
                ELSE ByValue(map_index(s1.adj, u, <<>>),
                         LAMBDA a1 : relax([s1 EXCEPT !.adj = a1], u, a1[u])))

RECURSIVE dijkstra_loop(_)
dijkstra_loop(s) ==
    IF s.pq = <<>> THEN s
    ELSE ByValue(dijkstra_step(s), LAMBDA s1 : dijkstra_loop(s1))

\* for (v = end; v != start; v = parent[v]) path.push_back(v);
\* one iteration: w = [parent, path, v]
walk_step(w) ==
    ByValue(map_index(w.parent, w.v, DefaultVertex),
            LAMBDA p1 : [parent |-> p1, path |-> Append(w.path, w.v), v |-> p1[w.v]])

walk_full(w) == Len(w.path) >= VectorMaxSize

RECURSIVE walk_loop(_, _)
walk_loop(w, start) ==
    IF w.v = start \/ walk_full(w) THEN w
    ELSE ByValue(walk_step(w), LAMBDA w1 : walk_loop(w1, start))

\* Mutant of restore_path: the final reverse(path) left out.
restore_path_unreversed(s, start, end) ==
    LET dist1 == map_index(s.dist, end, Fin(0))
    IN  IF dist1[end] = Infinity
        THEN [outcome |-> "returned", path |-> <<>>, distance |-> -1, adj |-> s.adj]
        ELSE ByValue(walk_loop([parent |-> s.parent, path |-> <<>>, v |-> end], start),
                 LAMBDA w :
                     IF w.v # start
                     THEN [outcome |-> "bad_alloc", path |-> <<>>, distance |-> 0,
                           adj |-> s.adj]
                     ELSE [outcome |-> "returned",
                           path |-> Append(w.path, start),
                           distance |-> static_cast_int(dist1[end]),
                           adj |-> s.adj])

\* What follows the Dijkstra loop: the no-path test and the path restoration.
restore_path(s, start, end) ==
    LET dist1 == map_index(s.dist, end, Fin(0))
    IN  IF dist1[end] = Infinity
        THEN [outcome |-> "returned", path |-> <<>>, distance |-> -1, adj |-> s.adj]
        ELSE ByValue(walk_loop([parent |-> s.parent, path |-> <<>>, v |-> end], start),
                 LAMBDA w :
                     IF w.v # start
                     THEN [outcome |-> "bad_alloc", path |-> <<>>, distance |-> 0,
                           adj |-> s.adj]
                     ELSE [outcome |-> "returned",
                           path |-> Reverse(Append(w.path, start)),
                           distance |-> static_cast_int(dist1[end]),
                           adj |-> s.adj])

shortest_path(adj, start, end) ==
    ByValue(dijkstra_loop(dijkstra_init(adj, start)),
            LAMBDA s : restore_path(s, start, end))

\* Environment::findOptimalRoute: forwards to shortest_path and returns its path
findOptimalRoute(adj, start, end) ==
    ByValue(shortest_path(adj, start, end),
            LAMBDA r : [outcome |-> r.outcome, path |-> r.path, adj |-> r.adj])

\* Weights must be non-negative for shortest_path (its documented domain).
NonNegative(adj) == \A u \in DOMAIN adj : \A i \in 1 .. Len(adj[u]) : adj[u][i][2] >= 0

\* ------------------------------------------------------------ the machine
\* pc = "idle": the caller owns the graph and may mutate it or call an algorithm.
\* pc = "done": an algorithm call has returned; call/ret hold the call and its
\* result until the caller goes on (Resume); call.before is the adjacency at
\* the moment of the call.
NoCall == [op |-> "none"]
NoRet == [outcome |-> "none"]
NoLoc == [alg |-> "none"]

Init ==
    /\ directed \in BOOLEAN
    /\ adjList = <<>>
    /\ call = NoCall
    /\ ret = NoRet
    /\ pc = "idle"
    /\ loc = NoLoc

Mutated(adj) ==
    /\ adjList' = adj
    /\ UNCHANGED <<directed, call, ret, pc, loc>>

AddVertex ==
    /\ pc = "idle"
    /\ \E v \in Keys : Mutated(add_vertex(adjList, v))

RemoveVertex ==
    /\ pc = "idle"
    /\ \E v \in Keys : Mutated(remove_vertex(adjList, v))

AddEdge ==
    /\ pc = "idle"
    /\ EdgeCount(adjList, directed) < MaxEdges
    /\ \E u \in Keys, v \in Keys, w \in Weights :
            Mutated(add_edge(adjList, directed, u, v, w))

RemoveEdge ==
    /\ pc = "idle"
    /\ \E u \in Keys, v \in Keys : Mutated(remove_edge(adjList, directed, u, v))

\* An algorithm call that runs to its return: adj is the adjacency it leaves.
Returned(c, r, adj) ==
    /\ call' = c
    /\ ret' = r
    /\ adjList' = adj
    /\ pc' = "done"
    /\ UNCHANGED <<directed, loc>>

MstResult(r) == [outcome |-> "returned", edges |-> r.edges, weight |-> r.weight]

MstPrim ==
    /\ pc = "idle"
    /\ Returned([op |-> "mst_prim", before |-> adjList], MstResult(mst_prim(adjList, directed)), adjList)

MstKruskal ==
    /\ pc = "idle"
    /\ \E r \in mst_kruskal(adjList, directed) :
            Returned([op |-> "mst_kruskal", before |-> adjList], MstResult(r), adjList)

MstBoruvka ==
    /\ pc = "idle"
    /\ Returned([op |-> "mst_boruvka", before |-> adjList], MstResult(mst_boruvka(adjList, directed)), adjList)

ShortestPath ==
    /\ pc = "idle"
    /\ NonNegative(adjList)
    /\ \E start \in Keys, end \in Keys :
         LET r == shortest_path(adjList, start, end)
         IN  Returned([op |-> "shortest_path", before |-> adjList,
                       start |-> start, end |-> end],
                      [outcome |-> r.outcome, path |-> r.path, distance |-> r.distance],
                      r.adj)

FindOptimalRoute ==
    /\ pc = "idle"
    /\ NonNegative(adjList)
    /\ \E start \in Keys, end \in Keys :
         LET r == findOptimalRoute(adjList, start, end)
         IN  Returned([op |-> "findOptimalRoute", before |-> adjList,
                       start |-> start, end |-> end],
                      [outcome |-> r.outcome, path |-> r.path],
                      r.adj)

\* The caller takes the result and goes on.
Resume ==
    /\ pc = "done"
    /\ pc' = "idle"
    /\ call' = NoCall
    /\ ret' = NoRet
    /\ UNCHANGED <<directed, adjList, loc>>

Next ==
    \/ AddVertex
    \/ RemoveVertex
    \/ AddEdge
    \/ RemoveEdge
    \/ MstPrim
    \/ MstKruskal
    \/ MstBoruvka
    \/ ShortestPath
    \/ FindOptimalRoute
    \/ Resume

Spec == Init /\ [][Next]_vars

\* ------------------------------------------------- the algorithms, stepwise
\* The same calls with every loop iteration as a step of its own: pc names the
\* loop the call is in and loc holds its local variables.  The calls run
\* synchronously, so a call that can take a step does take it (fairness of
\* StepSpec).
Entered(c, p, l) ==
    /\ call' = c
    /\ pc' = p
    /\ loc' = l
    /\ UNCHANGED <<directed, adjList, ret>>

Finished(r) ==
    /\ ret' = r
    /\ pc' = "done"
    /\ loc' = NoLoc
    /\ UNCHANGED <<directed, adjList, call>>

EarlyReturn(c, r) ==
    /\ call' = c
    /\ ret' = r
    /\ pc' = "done"
    /\ UNCHANGED <<directed, adjList, loc>>

PrimBegin ==
    /\ pc = "idle"
    /\ LET c == [op |-> "mst_prim", before |-> adjList]
       IN  IF DOMAIN adjList = {} \/ directed
           THEN EarlyReturn(c, MstResult(EmptyMst))
           ELSE Entered(c, "prim", prim_init(adjList))

PrimIterate ==
    /\ pc = "prim"
    /\ loc.pq # <<>>
    /\ loc' = ByValue2(adjList, loc, LAMBDA adj, s : prim_step(adj, s))
    /\ UNCHANGED <<directed, adjList, call, ret, pc>>

PrimReturn ==
    /\ pc = "prim"
    /\ loc.pq = <<>>
    /\ Finished(MstResult([edges |-> loc.mstEdges, weight |-> loc.totalWeight]))

KruskalBegin ==
    /\ pc = "idle"
    /\ LET c == [op |-> "mst_kruskal", before |-> adjList]
       IN  IF DOMAIN adjList = {} \/ directed
           THEN EarlyReturn(c, MstResult(EmptyMst))
           ELSE \E sorted \in sort_by_weight(collect_edges(adjList)) :
                    Entered(c, "kruskal", [s |-> kruskal_init(adjList), edges |-> sorted])

KruskalIterate ==
    /\ pc = "kruskal"
    /\ loc.edges # <<>>
    /\ loc' = [s |-> ByValue3(vertexToIndex(adjList), loc.s, Head(loc.edges),
                              LAMBDA idx, s, e : kruskal_step(idx, s, e)),
               edges |-> Tail(loc.edges)]
    /\ UNCHANGED <<directed, adjList, call, ret, pc>>

KruskalReturn ==
    /\ pc = "kruskal"
    /\ loc.edges = <<>>
    /\ Finished(MstResult([edges |-> loc.s.mstEdges, weight |-> loc.s.totalWeight]))

BoruvkaBegin ==
    /\ pc = "idle"
    /\ LET c == [op |-> "mst_boruvka", before |-> adjList]
       IN  IF directed \/ Cardinality(DOMAIN adjList) = 0
           THEN EarlyReturn(c, MstResult(EmptyMst))
           ELSE Entered(c, "boruvka", boruvka_init(adjList))

BoruvkaRound ==
    /\ pc = "boruvka"
    /\ boruvka_continues(loc)
    /\ loc' = ByValue2(adjList, loc, LAMBDA adj, s : boruvka_round(adj, s))
    /\ UNCHANGED <<directed, adjList, call, ret, pc>>

BoruvkaReturn ==
    /\ pc = "boruvka"
    /\ ~boruvka_continues(loc)
    /\ Finished(MstResult([edges |-> loc.mstEdges, weight |-> loc.totalWeight]))

DijkstraBegin ==
    /\ pc = "idle"
    /\ NonNegative(adjList)
    /\ \E start \in Keys, end \in Keys :
         LET s == dijkstra_init(adjList, start)
         IN  Entered([op |-> "shortest_path", before |-> adjList,
                      start |-> start, end |-> end],
                     "dijkstra",
                     [dist |-> s.dist, parent |-> s.parent, pq |-> s.pq])

DijkstraIterate ==
    /\ pc = "dijkstra"
    /\ loc.pq # <<>>
    /\ \E s \in {dijkstra_step([adj |-> adjList, dist |-> loc.dist,
                                 parent |-> loc.parent, pq |-> loc.pq])} :
           /\ adjList' = s.adj
           /\ loc' = [dist |-> s.dist, parent |-> s.parent, pq |-> s.pq]
    /\ UNCHANGED <<directed, call, ret, pc>>

\* the queue is empty: the no-path test, or on to the walk over parent
DijkstraExit ==
    /\ pc = "dijkstra"
    /\ loc.pq = <<>>
    /\ LET dist1 == map_index(loc.dist, call.end, Fin(0))
       IN  IF dist1[call.end] = Infinity
           THEN Finished([outcome |-> "returned", path |-> <<>>, distance |-> -1])
           ELSE /\ pc' = "walk"
                /\ loc' = [dist |-> dist1, parent |-> loc.parent, path |-> <<>>,
                           v |-> call.end]
                /\ UNCHANGED <<directed, adjList, call, ret>>

WalkIterate ==
    /\ pc = "walk"
    /\ loc.v # call.start
    /\ ~walk_full(loc)
    /\ \E w \in {walk_step([parent |-> loc.parent, path |-> loc.path, v |-> loc.v])} :
           loc' = [dist |-> loc.dist, parent |-> w.parent, path |-> w.path, v |-> w.v]
    /\ UNCHANGED <<directed, adjList, call, ret, pc>>

WalkOverflow ==
    /\ pc = "walk"
    /\ loc.v # call.start
    /\ walk_full(loc)
    /\ Finished([outcome |-> "bad_alloc", path |-> <<>>, distance |-> 0])

WalkReturn ==
    /\ pc = "walk"
    /\ loc.v = call.start
    /\ Finished([outcome |-> "returned",
                 path |-> Reverse(Append(loc.path, call.start)),
                 distance |-> static_cast_int(loc.dist[call.end])])

Run ==
    \/ PrimIterate
    \/ PrimReturn
    \/ KruskalIterate
    \/ KruskalReturn
    \/ BoruvkaRound
    \/ BoruvkaReturn
    \/ DijkstraIterate
    \/ DijkstraExit
    \/ WalkIterate
    \/ WalkOverflow
    \/ WalkReturn

StepNext ==
    \/ AddVertex
    \/ RemoveVertex
    \/ AddEdge
    \/ RemoveEdge
    \/ PrimBegin
    \/ KruskalBegin
    \/ BoruvkaBegin
    \/ DijkstraBegin
    \/ Run
    \/ Resume

StepSpec == Init /\ [][StepNext]_vars /\ WF_vars(Run)

\* ------------------------------------------------- the mutators as calls
\* The four mutators with the call on record: until the caller goes on
\* (Resume), call holds the operation, its arguments and the adjacency before
\* it.  All four return void.
Edited(c, adj) ==
    /\ call' = c
    /\ ret' = [outcome |-> "returned"]
    /\ adjList' = adj
    /\ pc' = "done"
    /\ UNCHANGED <<directed, loc>>

CallAddVertex ==
    /\ pc = "idle"
    /\ \E v \in Keys :
          Edited([op |-> "add_vertex", before |-> adjList, v |-> v],
                 add_vertex(adjList, v))

CallRemoveVertex ==
    /\ pc = "idle"
    /\ \E v \in Keys :
          Edited([op |-> "remove_vertex", before |-> adjList, v |-> v],
                 remove_vertex(adjList, v))

CallAddEdge ==
    /\ pc = "idle"
    /\ EdgeCount(adjList, directed) < MaxEdges
    /\ \E u \in Keys, v \in Keys, w \in Weights :
          Edited([op |-> "add_edge", before |-> adjList, u |-> u, v |-> v, w |-> w],
                 add_edge(adjList, directed, u, v, w))

CallRemoveEdge ==
    /\ pc = "idle"
    /\ \E u \in Keys, v \in Keys :
          Edited([op |-> "remove_edge", before |-> adjList, u |-> u, v |-> v],
                 remove_edge(adjList, directed, u, v))

EditNext ==
    \/ CallAddVertex
    \/ CallRemoveVertex
    \/ CallAddEdge
    \/ CallRemoveEdge
    \/ Resume

EditSpec == Init /\ [][EditNext]_vars

\* A query issued right after remove_edge(u, v) has returned: the call record
\* keeps the removed pair next to the query's own arguments.
Queried(c, r, adj) ==
    /\ call' = c
    /\ ret' = r
    /\ adjList' = adj
    /\ UNCHANGED <<directed, pc, loc>>

MstAfterRemoveEdge ==
    /\ pc = "done"
    /\ call.op = "remove_edge"
    /\ \E op \in {"mst_prim", "mst_kruskal", "mst_boruvka"} :
          \E r \in (CASE op = "mst_prim" -> {mst_prim(adjList, directed)}
                      [] op = "mst_kruskal" -> mst_kruskal(adjList, directed)
                      [] op = "mst_boruvka" -> {mst_boruvka(adjList, directed)}) :
              Queried([op |-> op, before |-> adjList, removed |-> <<call.u, call.v>>],
                      MstResult(r), adjList)

ShortestPathAfterRemoveEdge ==
    /\ pc = "done"
    /\ call.op = "remove_edge"
    /\ NonNegative(adjList)
    /\ \E start \in Keys, end \in Keys :
          \E r \in {shortest_path(adjList, start, end)} :
              Queried([op |-> "shortest_path", before |-> adjList,
                       start |-> start, end |-> end,
                       removed |-> <<call.u, call.v>>],
                      [outcome |-> r.outcome, path |-> r.path, distance |-> r.distance],
                      r.adj)

EditQueryNext ==
    \/ CallAddVertex
    \/ CallRemoveVertex
    \/ CallAddEdge
    \/ CallRemoveEdge
    \/ MstAfterRemoveEdge
    \/ ShortestPathAfterRemoveEdge
    \/ Resume

EditQuerySpec == Init /\ [][EditQueryNext]_vars

\* ------------------------------------------------------ a DSU on its own
\* A DSU object of n elements and the calls made on it: loc.dsu is the object
\* (parent, rank); loc.joined is the history of the union_sets calls, kept as
\* the least element of each class of the partition they generate.  call and
\* ret hold the last call, with the object before it, and its return value.
DsuInit ==
    /\ directed = FALSE
    /\ adjList = <<>>
    /\ call = NoCall
    /\ ret = NoRet
    /\ pc = "idle"
    /\ \E n \in 1 .. MaxDsuSize :
          loc = [dsu |-> dsu_new(n), joined |-> [i \in 0 .. n - 1 |-> i]]

\* the history after union_sets(a, b): the classes of a and b are one class
Joined(joined, a, b) ==
    [i \in DOMAIN joined |->
        IF joined[i] \in {joined[a], joined[b]}
        THEN MinOf({joined[a], joined[b]}) ELSE joined[i]]

DsuUnionSets ==
    /\ pc = "idle"
    /\ \E a \in DOMAIN loc.joined, b \in DOMAIN loc.joined :
          \E un \in {union_sets(loc.dsu, a, b)} :
              /\ call' = [op |-> "union_sets", a |-> a, b |-> b, before |-> loc.dsu]
              /\ ret' = [outcome |-> "returned", value |-> un.ok]
              /\ loc' = [dsu |-> un.dsu, joined |-> Joined(loc.joined, a, b)]
    /\ pc' = "done"
    /\ UNCHANGED <<directed, adjList>>

DsuFindSet ==
    /\ pc = "idle"
    /\ \E v \in DOMAIN loc.joined :
          \E f \in {find_set(loc.dsu.parent, v)} :
              /\ call' = [op |-> "find_set", v |-> v, before |-> loc.dsu]
              /\ ret' = [outcome |-> "returned", value |-> f.root]
              /\ loc' = [loc EXCEPT !.dsu.parent = f.parent]
    /\ pc' = "done"
    /\ UNCHANGED <<directed, adjList>>

DsuNext ==
    \/ DsuUnionSets
    \/ DsuFindSet
    \/ Resume

DsuSpec == DsuInit /\ [][DsuNext]_vars

\* ------------------------------------------------------------ transport
\* The transport classes compute with double.  A double is modelled as a
\* binary floating-point number with Precision significant bits and a
\* smallest quantum of 2^-FracBits (an IEEE-754 double has 53 bits and the
\* quantum 2^-1074), held as the integer count of that quantum.  Every
\* operation yields the exact result rounded to nearest, ties to even.
Precision == 5
FracBits == 8
MaxSpeed == 1
MaxFuel == 14
MaxRate == 11
MaxDistance == 2
MaxRefuel == 2
MaxPosition == 3

\* the double of the integer k
Unit == 2 ^ FracBits
Dbl(k) == k * Unit

\* a / b (a >= 0, b > 0) as an integer, rounded to nearest, ties to even
RoundEven(a, b) ==
    LET n == a \div b
        r == a % b
    IN  IF 2 * r > b \/ (2 * r = b /\ n % 2 = 1) THEN n + 1 ELSE n

RECURSIVE Quantum(_, _, _)
\* the spacing of the doubles around a / b: the least power of two q with
\* a / b < 2^Precision * q
Quantum(a, b, q) ==
    IF a < (2 ^ Precision) * q * b THEN q ELSE Quantum(a, b, 2 * q)

\* the double nearest to the exact quotient a / b of two integers, b > 0
double_round(a, b) ==
    LET m == IF a < 0 THEN 0 - a ELSE a
        q == Quantum(m, b, 1)
        n == q * RoundEven(m, b * q)
    IN  IF a < 0 THEN 0 - n ELSE n

double_add(x, y) == double_round(x + y, 1)
double_sub(x, y) == double_round(x - y, 1)
double_mul(x, y) == double_round(x * y, Unit)
double_div(x, y) ==
    IF y > 0 THEN double_round(x * Unit, y) ELSE 0 - double_round(x * Unit, 0 - y)

std_min(a, b) == IF b < a THEN b ELSE a
std_max(a, b) == IF a < b THEN b ELSE a

\* A transport object: kind is its dynamic type, by which a call through a
\* Transport reference is dispatched.  The classes without a tank or without
\* a consumption rate hold 0 in the fields they lack.
Plain == {"Transport"}
Tanked == {"LandTransport", "WaterTransport", "AirTransport"}
Consuming == {"Car", "Train", "Yacht", "Helicopter"}
Kinds == Plain \cup Tanked \cup Consuming

\* the constructors: position 0, the given speed, a full tank
Transport_new(k, s) ==
    [kind |-> k, speed |-> s, position |-> 0,
     fuelCapacity |-> 0, currentFuel |-> 0, fuelConsumptionRate |-> 0]
Tanked_new(k, s, fuelCap) ==
    [Transport_new(k, s) EXCEPT !.fuelCapacity = fuelCap, !.currentFuel = fuelCap]
Consuming_new(k, s, fuelCap, rate) ==
    [Tanked_new(k, s, fuelCap) EXCEPT !.fuelConsumptionRate = rate]

accelerate(t, increment) ==
    [t EXCEPT !.speed = double_add(t.speed, increment)]

brake(t, decrement) ==
    LET s == double_sub(t.speed, decrement)
    IN  [t EXCEPT !.speed = IF s < 0 THEN 0 ELSE s]

updatePosition(t, distance) ==
    [t EXCEPT !.position = double_add(t.position, distance)]

hasFuel(t) == IF t.kind \in Plain THEN TRUE ELSE t.currentFuel > 0

setFuel(t, amount) ==
    IF t.kind \in Plain THEN t
    ELSE [t EXCEPT !.currentFuel = std_max(0, std_min(amount, t.fuelCapacity))]

Transport_move(t, distance) == updatePosition(t, distance)

\* LandTransport::move, WaterTransport::move, AirTransport::move
Tanked_move(t, distance) ==
    IF ~hasFuel(t) THEN t ELSE updatePosition(t, distance)

\* Car::move, Train::move, Yacht::move, Helicopter::move
Consuming_move(t, distance) ==
    IF ~hasFuel(t) THEN t
    ELSE LET fuelNeeded == double_mul(distance, t.fuelConsumptionRate)
             dist == IF fuelNeeded > t.currentFuel
                     THEN double_div(t.currentFuel, t.fuelConsumptionRate)
                     ELSE distance
             used == double_mul(dist, t.fuelConsumptionRate)
         IN  updatePosition(
                 [t EXCEPT !.currentFuel = double_sub(t.currentFuel, used)], dist)

\* virtual void move(double distance)
move(t, distance) ==
    IF t.kind \in Plain THEN Transport_move(t, distance)
    ELSE IF t.kind \in Tanked THEN Tanked_move(t, distance)
    ELSE Consuming_move(t, distance)

\* One transport object (loc) and the calls made on it through a Transport
\* reference; call holds the last call with the object before it.
TransportInit ==
    /\ directed = FALSE
    /\ adjList = <<>>
    /\ call = NoCall
    /\ ret = NoRet
    /\ pc = "idle"
    /\ \E s \in 0 .. MaxSpeed :
          \/ \E k \in Plain : loc = Transport_new(k, Dbl(s))
          \/ \E k \in Tanked, c \in 1 .. MaxFuel : loc = Tanked_new(k, Dbl(s), Dbl(c))
          \/ \E k \in Consuming, c \in 1 .. MaxFuel, r \in 1 .. MaxRate :
                loc = Consuming_new(k, Dbl(s), Dbl(c), Dbl(r))

Called(c, t) ==
    /\ call' = c
    /\ ret' = [outcome |-> "returned"]
    /\ loc' = t
    /\ pc' = "done"
    /\ UNCHANGED <<directed, adjList>>

InSpeedRange(t) ==
    /\ t.speed >= Dbl(0 - MaxSpeed)
    /\ t.speed <= Dbl(MaxSpeed)

CallAccelerate ==
    /\ pc = "idle"
    /\ \E x \in (0 - MaxSpeed) .. MaxSpeed :
          /\ InSpeedRange(accelerate(loc, Dbl(x)))
          /\ Called([op |-> "accelerate", arg |-> Dbl(x), before |-> loc],
                    accelerate(loc, Dbl(x)))

CallBrake ==
    /\ pc = "idle"
    /\ \E y \in (0 - MaxSpeed) .. MaxSpeed :
          /\ InSpeedRange(brake(loc, Dbl(y)))
          /\ Called([op |-> "brake", arg |-> Dbl(y), before |-> loc],
                    brake(loc, Dbl(y)))

CallMove ==
    /\ pc = "idle"
    /\ \E d \in 0 .. MaxDistance :
          /\ loc.position + Dbl(d) <= Dbl(MaxPosition)
          /\ Called([op |-> "move", arg |-> Dbl(d), before |-> loc],
                    move(loc, Dbl(d)))

CallSetFuel ==
    /\ pc = "idle"
    /\ \E a \in (-1 .. MaxRefuel) \cup {MaxFuel + 1} :
          Called([op |-> "setFuel", arg |-> Dbl(a), before |-> loc],
                 setFuel(loc, Dbl(a)))

TransportNext ==
    \/ CallAccelerate
    \/ CallBrake
    \/ CallMove
    \/ CallSetFuel
    \/ Resume

TransportSpec == TransportInit /\ [][TransportNext]_vars

\* ================================================================ claims
\* Reference notions the claims are stated with (graph theory, not code).
MstOps == {"mst_prim", "mst_kruskal", "mst_boruvka"}
PathOps == {"shortest_path", "findOptimalRoute"}

\* Vertices reachable from the set R along the pairs of E read in both directions.
RECURSIVE UReach(_, _)
UReach(R, E) ==
    LET N == R \cup {e[2] : e \in {x \in E : x[1] \in R}}
                \cup {e[1] : e \in {x \in E : x[2] \in R}}
    IN  IF N = R THEN R ELSE UReach(N, E)

\* Vertices reachable from R along the pairs of E in their own direction.
RECURSIVE DReach(_, _)
DReach(R, E) ==
    LET N == R \cup {e[2] : e \in {x \in E : x[1] \in R}}
    IN  IF N = R THEN R ELSE DReach(N, E)

\* The stored edges u -> v as pairs.
Arcs(adj) == UNION {{<<u, adj[u][i][1]>> : i \in 1 .. Len(adj[u])} : u \in DOMAIN adj}

ConnectedGraph(adj) ==
    DOMAIN adj # {} /\ UReach({MinOf(DOMAIN adj)}, Arcs(adj)) = DOMAIN adj

RECURSIVE NumComponents(_, _)
NumComponents(V, E) ==
    IF V = {} THEN 0
    ELSE 1 + NumComponents(V \ UReach({MinOf(V)}, E), E)

\* The undirected non-loop edges, each named once by its entry <<u, i>> in the
\* list of its smaller endpoint.
UEdges(adj) == UNION {{<<u, i>> : i \in 1 .. Len(adj[u])} : u \in DOMAIN adj}

ProperUEdges(adj) == {e \in UEdges(adj) : adj[e[1]][e[2]][1] > e[1]}

EdgePairs(adj, T) == {<<e[1], adj[e[1]][e[2]][1]>> : e \in T}

RECURSIVE SetWeight(_, _)
SetWeight(adj, T) ==
    IF T = {} THEN 0
    ELSE LET e == CHOOSE x \in T : TRUE
         IN  adj[e[1]][e[2]][2] + SetWeight(adj, T \ {e})

SpanningTrees(adj) ==
    {T \in SUBSET ProperUEdges(adj) :
        /\ Cardinality(T) = Cardinality(DOMAIN adj) - 1
        /\ UReach({MinOf(DOMAIN adj)}, EdgePairs(adj, T)) = DOMAIN adj}

MinSpanningWeight(adj) ==
    LET ws == {SetWeight(adj, T) : T \in SpanningTrees(adj)}
    IN  CHOOSE m \in ws : \A x \in ws : m <= x

\* Least weight of a stored edge u -> v (u -> v must be stored).
MinArc(adj, u, v) ==
    LET ws == {adj[u][i][2] : i \in {j \in 1 .. Len(adj[u]) : adj[u][j][1] = v}}
    IN  CHOOSE m \in ws : \A x \in ws : m <= x

RECURSIVE PathCost(_, _)
PathCost(adj, p) ==
    IF Len(p) <= 1 THEN 0
    ELSE MinArc(adj, p[1], p[2]) + PathCost(adj, Tail(p))

IsPath(adj, p) ==
    /\ Len(p) >= 1
    /\ \A i \in 1 .. Len(p) : p[i] \in DOMAIN adj
    /\ \A i \in 1 .. Len(p) - 1 : <<p[i], p[i + 1]>> \in Arcs(adj)

\* The simple paths from s to e; with non-negative weights a cheapest path is
\* among them.
SimplePaths(adj, s, e) ==
    {p \in UNION {[1 .. n -> DOMAIN adj] : n \in 1 .. Cardinality(DOMAIN adj)} :
        /\ p[1] = s
        /\ p[Len(p)] = e
        /\ \A i, j \in 1 .. Len(p) : i # j => p[i] # p[j]
        /\ IsPath(adj, p)}

MinPathCost(adj, s, e) ==
    LET cs == {PathCost(adj, p) : p \in SimplePaths(adj, s, e)}
    IN  CHOOSE m \in cs : \A x \in cs : m <= x

HasPath(adj, s, e) == e \in DReach({s}, Arcs(adj))

Registered(adj, v) == v \in DOMAIN adj

MstDone == pc = "done" /\ call.op \in MstOps
MstOnConnected == MstDone /\ ~directed /\ ConnectedGraph(call.before)
PathDone == pc = "done" /\ call.op \in PathOps
PathDoneRegistered ==
    PathDone /\ Registered(call.before, call.start) /\ Registered(call.before, call.end)

\* C1: on an undirected connected graph each of mst_prim, mst_kruskal and
\* mst_boruvka returns, as total weight, the minimum total weight over all
\* spanning trees of the graph (so the three agree), for every outcome of
\* Kruskal's sort among equal weights.
C1_MstWeightIsMinimum ==
    MstOnConnected => ret.weight = MinSpanningWeight(call.before)

\* a connected graph with a cycle and tied weights, where the choice matters
C1_Witness ==
    /\ MstOnConnected
    /\ call.op = "mst_boruvka"
    /\ Cardinality(DOMAIN adjList) = 3
    /\ Cardinality(ProperUEdges(adjList)) = 3
    /\ Cardinality(SpanningTrees(adjList)) = 3
    /\ \E T1, T2 \in SpanningTrees(adjList) : SetWeight(adjList, T1) # SetWeight(adjList, T2)
    /\ ret.weight = MinSpanningWeight(adjList)

RECURSIVE SeqPairs(_)
SeqPairs(es) == IF es = <<>> THEN {} ELSE {Head(es)} \cup SeqPairs(Tail(es))

\* C2: on an undirected connected graph with V vertices the returned edge list
\* is a spanning tree: V - 1 pairs, each a stored edge, no cycle, all V connected.
C2_MstIsSpanningTree ==
    MstOnConnected =>
        LET V == DOMAIN call.before
            E == SeqPairs(ret.edges)
        IN  /\ Len(ret.edges) = Cardinality(V) - 1
            /\ E \subseteq Arcs(call.before)
            /\ Len(ret.edges) = Cardinality(V) - NumComponents(V, E)
            /\ UReach({MinOf(V)}, E) = V

C2_Witness ==
    /\ MstOnConnected
    /\ call.op = "mst_prim"
    /\ Cardinality(DOMAIN adjList) = 3
    /\ Cardinality(ProperUEdges(adjList)) = 3
    /\ Len(ret.edges) = 2

\* C3: non-negative weights, start and end registered, end reachable from
\* start: the returned total cost is the minimum path cost from start to end.
C3_ShortestPathCostIsMinimum ==
    (/\ PathDoneRegistered
     /\ call.op = "shortest_path"
     /\ HasPath(call.before, call.start, call.end))
        => /\ ret.outcome = "returned"
           /\ ret.distance = MinPathCost(call.before, call.start, call.end)

\* a two-hop path that beats the direct edge
C3_Witness ==
    /\ PathDoneRegistered
    /\ call.op = "shortest_path"
    /\ <<call.start, call.end>> \in Arcs(adjList)
    /\ ret.outcome = "returned"
    /\ Len(ret.path) = 3
    /\ ret.distance < MinArc(adjList, call.start, call.end)

\* C4: a non-empty returned path (registered vertices, non-negative weights)
\* starts at start, ends at end, follows stored edges, and the sum of the
\* least weights of its consecutive edges is the returned total cost.
C4_ReturnedPathIsValid ==
    (/\ PathDoneRegistered
     /\ call.op = "shortest_path"
     /\ ret.outcome = "returned"
     /\ ret.path # <<>>)
        => /\ ret.path[1] = call.start
           /\ ret.path[Len(ret.path)] = call.end
           /\ IsPath(call.before, ret.path)
           /\ PathCost(call.before, ret.path) = ret.distance

C4_Witness ==
    /\ PathDoneRegistered
    /\ call.op = "shortest_path"
    /\ ret.outcome = "returned"
    /\ Len(ret.path) = 3
    /\ ret.distance > 0
    /\ \E u \in DOMAIN adjList :
          Cardinality({i \in 1 .. Len(adjList[u]) : adjList[u][i][1] = ret.path[2]}) > 1

\* C5: start and end registered and no path from start to end: shortest_path
\* returns the empty path and -1, findOptimalRoute the empty route.
C5_NoPathSentinel ==
    (PathDoneRegistered /\ ~HasPath(call.before, call.start, call.end))
        => /\ ret.outcome = "returned"
           /\ ret.path = <<>>
           /\ call.op = "shortest_path" => ret.distance = -1

C5_Witness ==
    /\ PathDoneRegistered
    /\ call.op = "shortest_path"
    /\ directed
    /\ ~HasPath(adjList, call.start, call.end)
    /\ HasPath(adjList, call.end, call.start)
    /\ ret.path = <<>>
    /\ ret.distance = -1

\* C6: start registered, end not a vertex of the graph: shortest_path returns
\* the empty path and -1.
C6_UnregisteredEndSentinel ==
    (/\ PathDone
     /\ call.op = "shortest_path"
     /\ Registered(call.before, call.start)
     /\ ~Registered(call.before, call.end))
        => /\ ret.outcome = "returned"
           /\ ret.path = <<>>
           /\ ret.distance = -1

\* C7: findOptimalRoute on an empty graph with start # end returns normally
\* with an empty path.
C7_EmptyGraphEmptyRoute ==
    (/\ PathDone
     /\ call.op = "findOptimalRoute"
     /\ DOMAIN call.before = {}
     /\ call.start # call.end)
        => /\ ret.outcome = "returned"
           /\ ret.path = <<>>

\* C8: findOptimalRoute on a non-empty graph with start and end both absent
\* ends with std::out_of_range.
C8_InvalidNodesThrow ==
    (/\ PathDone
     /\ call.op = "findOptimalRoute"
     /\ DOMAIN call.before # {}
     /\ ~Registered(call.before, call.start)
     /\ ~Registered(call.before, call.end))
        => ret.outcome = "out_of_range"

\* C9: no algorithm call changes the graph, whatever its arguments: the
\* adjacency mapping after the call is the one before it.
C9_AlgorithmsLeaveGraphUnchanged ==
    pc = "done" => adjList = call.before

Running == pc \in {"prim", "kruskal", "boruvka", "dijkstra", "walk"}

\* C10: with non-negative weights and registered start and end every call
\* terminates: Prim's and Dijkstra's queues empty, Boruvka's round loop exits
\* and Dijkstra's walk over parent reaches start, so the call returns.
C10_CallsTerminate ==
    (/\ Running
     /\ NonNegative(call.before)
     /\ call.op = "shortest_path" =>
            Registered(call.before, call.start) /\ Registered(call.before, call.end))
        ~> (pc = "done" /\ ret.outcome = "returned")

\* a walk over parent that has taken two steps back and arrived at start
C10_Witness ==
    /\ pc = "walk"
    /\ Registered(call.before, call.start)
    /\ Registered(call.before, call.end)
    /\ Len(loc.path) = 2
    /\ loc.v = call.start

\* C11: on a directed graph (even one with edges) and on an empty graph each of
\* mst_prim, mst_kruskal and mst_boruvka returns the empty edge list and weight 0.
C11_DirectedOrEmptyGivesEmptyMst ==
    (MstDone /\ (directed \/ DOMAIN call.before = {}))
        => /\ ret.outcome = "returned"
           /\ ret.edges = <<>>
           /\ ret.weight = 0

\* Boruvka on a directed graph that holds an edge between two vertices
C11_Witness ==
    /\ MstDone
    /\ call.op = "mst_boruvka"
    /\ directed
    /\ \E a \in Arcs(adjList) : a[1] # a[2]
    /\ ret.edges = <<>>
    /\ ret.weight = 0

\* The graph with every self-loop entry taken out.
StripLoops(adj) == [u \in DOMAIN adj |-> SelectSeq(adj[u], LAMBDA e : e[1] # u)]

HasLoop(adj) == \E a \in Arcs(adj) : a[1] = a[2]

\* What algorithm op may return on adj (Kruskal: one result per sort outcome).
MstOutcomes(op, adj, dir) ==
    CASE op = "mst_prim" -> {mst_prim(adj, dir)}
      [] op = "mst_kruskal" -> mst_kruskal(adj, dir)
      [] op = "mst_boruvka" -> {mst_boruvka(adj, dir)}

\* C12: on an undirected graph with self-loops no returned pair is (u,u), and
\* the edge list and total weight are those of the graph without its self-loops.
C12_SelfLoopsIgnored ==
    (MstDone /\ ~directed /\ HasLoop(call.before))
        => /\ \A i \in 1 .. Len(ret.edges) : ret.edges[i][1] # ret.edges[i][2]
           /\ [edges |-> ret.edges, weight |-> ret.weight]
                  \in MstOutcomes(call.op, StripLoops(call.before), directed)
           /\ MstOutcomes(call.op, call.before, directed)
                  = MstOutcomes(call.op, StripLoops(call.before), directed)

\* Prim starting at a vertex with a self-loop that is cheaper than its other edge
C12_Witness ==
    /\ MstDone
    /\ call.op = "mst_prim"
    /\ ~directed
    /\ LET start == MinOf(DOMAIN adjList \cup {MaxKey})
       IN  /\ start \in DOMAIN adjList
           /\ \E i, j \in 1 .. Len(adjList[start]) :
                  /\ adjList[start][i][1] = start
                  /\ adjList[start][j][1] # start
                  /\ adjList[start][i][2] < adjList[start][j][2]
    /\ Len(ret.edges) = 2

\* The mutator call on record has returned.
Edit(op) == pc = "done" /\ call.op = op

\* v's neighbour list, empty for a key that is not registered
ListOf(adj, v) == IF v \in DOMAIN adj THEN adj[v] ELSE <<>>

\* C13: add_edge(u,v,w) registers u and v if absent, leaves every other list
\* (and the lists' old entries) alone, appends exactly one entry (v,w) to u's
\* list whatever is already there, and, if undirected and u # v, exactly one
\* entry (u,w) to v's list; a self-loop is stored exactly once in either mode.
C13_AddEdgeAppends ==
    Edit("add_edge") =>
        LET u == call.u
            v == call.v
            w == call.w
            old == call.before
        IN  /\ DOMAIN adjList = DOMAIN old \cup {u, v}
            /\ \A x \in DOMAIN old \ {u, v} : adjList[x] = old[x]
            /\ adjList[u] = Append(ListOf(old, u), <<v, w>>)
            /\ u # v =>
                  adjList[v] = IF directed THEN ListOf(old, v)
                               ELSE Append(ListOf(old, v), <<u, w>>)

\* a second, parallel edge added to an undirected graph between two vertices
C13_Witness ==
    /\ Edit("add_edge")
    /\ ~directed
    /\ call.u # call.v
    /\ <<call.u, call.v>> \in Arcs(call.before)
    /\ Len(adjList[call.u]) = Len(call.before[call.u]) + 1
    /\ Len(adjList[call.v]) = Len(call.before[call.v]) + 1

\* u's neighbour list holds no entry targeting v
NoEntry(adj, u, v) == \A i \in 1 .. Len(ListOf(adj, u)) : adj[u][i][1] # v

\* the result on record goes from a to b: as a returned MST pair, or as two
\* consecutive vertices of a returned path
UsesEdge(a, b) ==
    IF call.op \in MstOps THEN <<a, b>> \in SeqPairs(ret.edges)
    ELSE \E i \in 1 .. Len(ret.path) - 1 : ret.path[i] = a /\ ret.path[i + 1] = b

\* C14: after remove_edge(u,v) u's list has no entry targeting v, whatever the
\* number of parallel copies; undirected: v's list has none targeting u;
\* directed: v's list is untouched; and a later shortest_path or MST result uses
\* no edge between the pair in the removed direction(s).
C14_RemovedEdgeGone ==
    /\ Edit("remove_edge") =>
          /\ NoEntry(adjList, call.u, call.v)
          /\ ~directed => NoEntry(adjList, call.v, call.u)
          /\ (directed /\ call.u # call.v) =>
                ListOf(adjList, call.v) = ListOf(call.before, call.v)
    /\ (pc = "done" /\ call.op \in MstOps \cup {"shortest_path"}) =>
          /\ ~UsesEdge(call.removed[1], call.removed[2])
          /\ ~directed => ~UsesEdge(call.removed[2], call.removed[1])

RECURSIVE Without(_, _)
\* the entries of lst that do not target v, in their order
Without(lst, v) ==
    IF lst = <<>> THEN <<>>
    ELSE IF Head(lst)[1] = v THEN Without(Tail(lst), v)
    ELSE <<Head(lst)>> \o Without(Tail(lst), v)

\* C15: after remove_vertex(v), directed or not, v is no key of the adjacency
\* mapping, no remaining list holds an entry targeting v, and every entry not
\* targeting v is kept in its original order.
C15_RemoveVertexStrips ==
    Edit("remove_vertex") =>
        /\ call.v \notin DOMAIN adjList
        /\ DOMAIN adjList = DOMAIN call.before \ {call.v}
        /\ \A x \in DOMAIN adjList :
              /\ NoEntry(adjList, x, call.v)
              /\ adjList[x] = Without(call.before[x], call.v)

\* a vertex removed that another vertex pointed to twice, next to a kept entry
C15_Witness ==
    /\ Edit("remove_vertex")
    /\ call.v \in DOMAIN call.before
    /\ \E x \in DOMAIN adjList :
          /\ Len(call.before[x]) = 3
          /\ Len(adjList[x]) = 1

\* C16: remove_vertex(v) with v not registered, and remove_edge(u,v) with u or
\* v not registered or with no u->v edge stored, leave the adjacency mapping
\* as it was; neither ever registers a vertex.
C16_RemovalOfMissingIsNoOp ==
    /\ (Edit("remove_vertex") /\ call.v \notin DOMAIN call.before)
          => adjList = call.before
    /\ (/\ Edit("remove_edge")
        /\ \/ call.u \notin DOMAIN call.before
           \/ call.v \notin DOMAIN call.before
           \/ <<call.u, call.v>> \notin Arcs(call.before))
          => adjList = call.before
    /\ (Edit("remove_vertex") \/ Edit("remove_edge"))
          => DOMAIN adjList \subseteq DOMAIN call.before

\* remove_edge(u, v) on a graph with edges where u is not a vertex and v is
C16_Witness ==
    /\ Edit("remove_edge")
    /\ call.u \notin DOMAIN call.before
    /\ call.v \in DOMAIN call.before
    /\ call.before[call.v] # <<>>
    /\ adjList = call.before

\* The pairs of the sequence es form no cycle on the vertex set V (a pair
\* listed twice is a cycle).
Acyclic(V, es) == Len(es) = Cardinality(V) - NumComponents(V, SeqPairs(es))

\* C17: on a non-empty undirected graph with V vertices and C connected
\* components mst_kruskal returns exactly V - C edges, and they hold no cycle.
C17_KruskalSpanningForest ==
    (MstDone /\ call.op = "mst_kruskal" /\ ~directed /\ DOMAIN call.before # {})
        => LET V == DOMAIN call.before
           IN  /\ Len(ret.edges)
                     = Cardinality(V) - NumComponents(V, Arcs(call.before))
               /\ Acyclic(V, ret.edges)

\* two components, one of them with a cycle of parallel edges and a self-loop
C17_Witness ==
    /\ MstDone
    /\ call.op = "mst_kruskal"
    /\ ~directed
    /\ Cardinality(DOMAIN adjList) = 3
    /\ NumComponents(DOMAIN adjList, Arcs(adjList)) = 2
    /\ Cardinality(ProperUEdges(adjList)) = 2
    /\ HasLoop(adjList)
    /\ Len(ret.edges) = 1

\* Number of sets of a DSU: its self-parented indices.
DsuSets(parent) == Cardinality({i \in DOMAIN parent : parent[i] = i})

\* mst_boruvka is in its round loop on an undirected graph of several components
BoruvkaOnSeveral ==
    /\ pc = "boruvka"
    /\ NumComponents(DOMAIN adjList, Arcs(adjList)) > 1

\* C18: mst_boruvka on an undirected graph with C > 1 components: after the
\* first round with zero unions the loop is left; no admitted edge joins two
\* vertices already in one DSU set (the admitted edges hold no cycle, and each
\* one merged two sets); at exit numTrees is the number of DSU sets, which is
\* C, and V - C edges are returned.
C18_BoruvkaStopsOnComponents ==
    /\ [](BoruvkaOnSeveral =>
            LET V == DOMAIN adjList
                C == NumComponents(V, Arcs(adjList))
            IN  /\ Acyclic(V, loc.mstEdges)
                /\ DsuSets(loc.dsu.parent) = Cardinality(V) - Len(loc.mstEdges)
                /\ loc.numTrees = DsuSets(loc.dsu.parent)
                /\ ~boruvka_continues(loc) =>
                      /\ loc.numTrees = C
                      /\ Len(loc.mstEdges) = Cardinality(V) - C)
    /\ [][(BoruvkaOnSeveral /\ ~loc.anyUnion) =>
            (pc' = "done" /\ ret'.edges = loc.mstEdges)]_vars

\* a round without unions has ended on three vertices in two components
C18_Witness ==
    /\ BoruvkaOnSeveral
    /\ ~loc.anyUnion
    /\ Cardinality(DOMAIN adjList) = 3
    /\ loc.numTrees = 2
    /\ Len(loc.mstEdges) = 1

RECURSIVE Climb(_, _, _)
\* the index reached from v after k steps along the parent pointers
Climb(parent, v, k) == IF k = 0 THEN v ELSE Climb(parent, parent[v], k - 1)

\* where the parent pointers lead from v (a forest: v's root)
RootOf(parent, v) == Climb(parent, v, Cardinality(DOMAIN parent))

\* the nodes find_set(v) visits
PathOf(parent, v) == {Climb(parent, v, k) : k \in 0 .. Cardinality(DOMAIN parent)}

SameSet(parent, i, j) == RootOf(parent, i) = RootOf(parent, j)

DsuCall(op) == pc = "done" /\ call.op = op

\* C19: union_sets(a,b) returns false, the partition unchanged, exactly when a
\* and b have the same representative; otherwise it returns true, a and b are
\* then in one set, the number of sets is one less, no other element changes
\* set, the root of smaller rank hangs under the root of larger rank, and a rank
\* grows (by one, at the new root) only when the two roots' ranks were equal.
C19_UnionSetsContract ==
    DsuCall("union_sets") =>
        LET old == call.before
            new == loc.dsu
            ra == RootOf(old.parent, call.a)
            rb == RootOf(old.parent, call.b)
            I == DOMAIN old.parent
        IN  /\ ret.value = (ra # rb)
            /\ ra = rb =>
                  /\ \A i, j \in I :
                        SameSet(new.parent, i, j) = SameSet(old.parent, i, j)
                  /\ DsuSets(new.parent) = DsuSets(old.parent)
                  /\ new.rank = old.rank
            /\ ra # rb =>
                  /\ find_set(new.parent, call.a).root = find_set(new.parent, call.b).root
                  /\ DsuSets(new.parent) = DsuSets(old.parent) - 1
                  /\ \A i, j \in I :
                        SameSet(new.parent, i, j) =
                            \/ SameSet(old.parent, i, j)
                            \/ {RootOf(old.parent, i), RootOf(old.parent, j)} = {ra, rb}
                  /\ old.rank[ra] < old.rank[rb] =>
                        new.parent[ra] = rb /\ new.rank = old.rank
                  /\ old.rank[rb] < old.rank[ra] =>
                        new.parent[rb] = ra /\ new.rank = old.rank
                  /\ old.rank[ra] = old.rank[rb] =>
                        \E top \in {ra, rb} :
                            /\ new.parent[ra] = top
                            /\ new.parent[rb] = top
                            /\ new.rank = [old.rank EXCEPT ![top] = @ + 1]

\* a root of rank 0 passed first and united with a root of rank 1
C19_Witness ==
    /\ DsuCall("union_sets")
    /\ ret.value
    /\ call.before.parent[call.a] = call.a
    /\ call.before.parent[call.b] = call.b
    /\ call.before.rank[call.a] < call.before.rank[call.b]
    /\ loc.dsu.parent[call.a] = call.b

\* C20: after any sequence of union_sets and find_set calls the parent array
\* is a forest; find_set(v) returns v's root; two indices get the same result
\* exactly when unions joined them; and a find_set call changes no element's
\* set: it only points every node of the visited path at the root.
C20_DsuForest ==
    LET parent == loc.dsu.parent
        I == DOMAIN parent
    IN  /\ \A v \in I : parent[RootOf(parent, v)] = RootOf(parent, v)
        /\ \A v \in I : find_set(parent, v).root = RootOf(parent, v)
        /\ \A i, j \in I :
              (find_set(parent, i).root = find_set(parent, j).root)
                  = (loc.joined[i] = loc.joined[j])
        /\ DsuCall("find_set") =>
              LET old == call.before.parent
                  root == RootOf(old, call.v)
              IN  /\ ret.value = root
                  /\ \A i \in I : RootOf(parent, i) = RootOf(old, i)
                  /\ parent = [i \in I |-> IF i \in PathOf(old, call.v)
                                            THEN root ELSE old[i]]
                  /\ loc.dsu.rank = call.before.rank

\* find_set on a node two steps below its root: the node now hangs on the root
C20_Witness ==
    /\ DsuCall("find_set")
    /\ Cardinality(PathOf(call.before.parent, call.v)) = 3
    /\ loc.dsu.parent[call.v] = ret.value
    /\ loc.dsu.parent # call.before.parent

\* ---------------------------------------------------------------- C21..C23
\* a call of the given method on the transport has just returned
TransportCall(op) == pc = "done" /\ call.op = op
FuelledKinds == Tanked \cup Consuming

\* C21: for every transport type, whatever accelerate(x) and brake(y) calls
\* (negative arguments included) were made from a non-negative starting speed,
\* the speed is never negative; brake with a decrement larger than the
\* current speed leaves the speed exactly 0.
C21_SpeedNeverNegative ==
    /\ loc.speed >= 0
    /\ (/\ TransportCall("brake")
        /\ call.before.speed >= 0
        /\ call.arg > call.before.speed) => loc.speed = 0

\* C22: for every fuelled type, called through a Transport reference: with an
\* empty tank (after setFuel(0)) move(d) leaves the position and the fuel
\* level unchanged; with fuel in the tank move(d), d > 0, strictly increases
\* the position.
C22_MoveNeedsFuel ==
    (TransportCall("move") /\ call.before.kind \in FuelledKinds) =>
        /\ call.before.currentFuel = 0 =>
              /\ loc.position = call.before.position
              /\ loc.currentFuel = call.before.currentFuel
        /\ (call.before.currentFuel > 0 /\ call.arg > 0) =>
              loc.position > call.before.position

\* C23: for LandTransport, WaterTransport and AirTransport with fuel in the
\* tank, at speed 0 a call move(d) leaves the position unchanged.
C23_NoMovementAtZeroSpeed ==
    (/\ TransportCall("move")
     /\ call.before.kind \in Tanked
     /\ call.before.currentFuel > 0
     /\ call.before.speed = 0) => loc.position = call.before.position

\* -------------------------------------------------------------------- C24
\* the queue candidates <<w, from, to>> with from = to
SelfCandidates(pq) == {i \in DOMAIN pq : pq[i][2] = pq[i][3]}
\* the self-loop entries in the list of v
SelfEntries(adj, v) == {i \in DOMAIN adj[v] : adj[v][i][1] = v}

\* C24 (as stated): during mst_prim no candidate whose source and destination
\* are the same vertex is ever pushed onto the priority queue, also when the
\* start vertex carries a self-loop.
C24_NoSelfCandidatePushed ==
    pc = "prim" => SelfCandidates(loc.pq) = {}

\* C24 (amended): the seeding loop pushes every entry of the start vertex,
\* its self-loops included; the main loop never pushes a candidate from a
\* vertex to itself; so every such candidate in the queue is a self-loop of
\* the start vertex, and none is ever admitted to the tree.
C24_SelfCandidatesOnlySeeded ==
    /\ [](pc = "prim" =>
            /\ \A i \in SelfCandidates(loc.pq) :
                    loc.pq[i][2] = MinOf(DOMAIN adjList)
            /\ \A j \in DOMAIN loc.mstEdges :
                    loc.mstEdges[j][1] # loc.mstEdges[j][2])
    /\ [][/\ (pc = "idle" /\ pc' = "prim") =>
                Cardinality(SelfCandidates(loc'.pq)) =
                    Cardinality(SelfEntries(adjList, MinOf(DOMAIN adjList)))
          /\ (pc = "prim" /\ pc' = "prim") =>
                Cardinality(SelfCandidates(loc'.pq)) <=
                    Cardinality(SelfCandidates(loc.pq))]_vars

\* the start's self-loop is still queued while a vertex that has a self-loop
\* of its own has been admitted by the main loop
C24_Witness ==
    /\ pc = "prim"
    /\ SelfCandidates(loc.pq) # {}
    /\ \E v \in DOMAIN adjList :
          /\ v # MinOf(DOMAIN adjList)
          /\ loc.inMST[v]
          /\ SelfEntries(adjList, v) # {}

\* ---------------------------------------------------------------- C25..C29
PrimDone == MstDone /\ call.op = "mst_prim" /\ ~directed /\ DOMAIN call.before # {}
\* the second components of the first n pairs of es
Admitted(es, n) == {es[j][2] : j \in 1 .. n}

\* C25: mst_prim grows one tree from the smallest key: in the returned list,
\* in order, the first component of every pair is the smallest vertex or the
\* second component of an earlier pair, and the second component is neither
\* the smallest vertex nor the second component of an earlier pair.
C25_PrimGrowsOneTree ==
    PrimDone =>
        LET start == MinOf(DOMAIN call.before)
        IN  \A i \in 1 .. Len(ret.edges) :
                /\ ret.edges[i][1] \in {start} \cup Admitted(ret.edges, i - 1)
                /\ ret.edges[i][2] \notin {start} \cup Admitted(ret.edges, i - 1)

\* a cycle with a parallel edge: stale entries are queued, and the tree grows
\* from an admitted vertex other than the smallest
C25_Witness ==
    /\ PrimDone
    /\ Cardinality(ProperUEdges(adjList)) = 3
    /\ Len(ret.edges) = 2
    /\ ret.edges[2][1] # MinOf(DOMAIN adjList)

\* the subgraph on the vertex set C (C closed under the edges)
Induced(adj, C) == [v \in C |-> adj[v]]
\* the connected component of the smallest key
FirstComponent(adj) == UReach({MinOf(DOMAIN adj)}, Arcs(adj))

\* C26: on an undirected graph of more than one component mst_prim returns a
\* minimum spanning tree of the component of the smallest key only: that
\* component's size minus one edges, all inside it, connecting it, of least
\* total weight; so no more edges than mst_kruskal and mst_boruvka return
\* (and, weights being non-negative, no more weight); an isolated smallest
\* vertex gives the empty list and 0.
C26_PrimCoversFirstComponent ==
    (PrimDone /\ ~ConnectedGraph(call.before)) =>
        LET comp == FirstComponent(call.before)
            pairs == SeqPairs(ret.edges)
        IN  /\ Len(ret.edges) = Cardinality(comp) - 1
            /\ \A p \in pairs : p[1] \in comp /\ p[2] \in comp /\ p \in Arcs(call.before)
            /\ UReach({MinOf(comp)}, pairs) = comp
            /\ ret.weight = MinSpanningWeight(Induced(call.before, comp))
            /\ comp = {MinOf(comp)} => (ret.edges = <<>> /\ ret.weight = 0)
            /\ \A r \in mst_kruskal(call.before, directed) \cup
                        {mst_boruvka(call.before, directed)} :
                    /\ Len(ret.edges) <= Len(r.edges)
                    /\ NonNegative(call.before) => ret.weight <= r.weight

\* the smallest vertex is isolated and the rest holds an edge of weight > 0:
\* Prim returns nothing where Kruskal and Boruvka return that edge
C26_Witness ==
    /\ PrimDone
    /\ FirstComponent(adjList) = {MinOf(DOMAIN adjList)}
    /\ ret.edges = <<>>
    /\ ret.weight = 0
    /\ \A r \in mst_kruskal(adjList, directed) \cup {mst_boruvka(adjList, directed)} :
            Len(r.edges) > 0 /\ r.weight > 0

\* the spanning forests: V - C edges that leave the C components connected
SpanningForests(adj) ==
    LET V == DOMAIN adj
        C == NumComponents(V, Arcs(adj))
    IN  {T \in SUBSET ProperUEdges(adj) :
            /\ Cardinality(T) = Cardinality(V) - C
            /\ NumComponents(V, EdgePairs(adj, T)) = C}

MinForestWeight(adj) ==
    LET ws == {SetWeight(adj, T) : T \in SpanningForests(adj)}
    IN  CHOOSE m \in ws : \A x \in ws : m <= x

\* C27: on every undirected graph, connected or not, with parallel edges and
\* equal weights, mst_kruskal and mst_boruvka return the same number of edges
\* and the same total weight, the weight of a minimum spanning forest, and
\* neither result holds a cycle.
C27_KruskalBoruvkaAgree ==
    (MstDone /\ call.op \in {"mst_kruskal", "mst_boruvka"} /\ ~directed
        /\ DOMAIN call.before # {}) =>
        LET V == DOMAIN call.before
        IN  /\ ret.weight = MinForestWeight(call.before)
            /\ Len(ret.edges) = Cardinality(V) - NumComponents(V, Arcs(call.before))
            /\ Acyclic(V, ret.edges)
            /\ \A r \in mst_kruskal(call.before, directed) \cup
                        {mst_boruvka(call.before, directed)} :
                    /\ Len(r.edges) = Len(ret.edges)
                    /\ r.weight = ret.weight

\* Boruvka on two components, one of them two parallel edges of equal weight:
\* both endpoints choose the same edge in the round
C27_Witness ==
    /\ MstDone
    /\ call.op = "mst_boruvka"
    /\ ~directed
    /\ NumComponents(DOMAIN adjList, Arcs(adjList)) = 2
    /\ \E e, f \in ProperUEdges(adjList) :
          /\ e # f
          /\ adjList[e[1]][e[2]] = adjList[f[1]][f[2]]
          /\ adjList[e[1]][e[2]][2] > 0
    /\ Len(ret.edges) = 1
    /\ ret.weight = MinForestWeight(adjList)

RECURSIVE WeightsTo(_, _)
\* the weights of the entries of lst that target v, in list order
WeightsTo(lst, v) ==
    IF lst = <<>> THEN <<>>
    ELSE (IF Head(lst)[1] = v THEN <<Head(lst)[2]>> ELSE <<>>) \o WeightsTo(Tail(lst), v)

\* C28: in an undirected graph, after any add_vertex, add_edge, remove_edge and
\* remove_vertex calls, for all distinct u and v the weights of the entries
\* targeting v in u's list are, in order, those of the entries targeting u in
\* v's list.
C28_UndirectedMirror ==
    ~directed =>
        \A u \in Keys, v \in Keys :
            u # v => WeightsTo(ListOf(adjList, u), v) = WeightsTo(ListOf(adjList, v), u)

\* a removal has returned and left two parallel edges of different weights
C28_Witness ==
    /\ ~directed
    /\ pc = "done"
    /\ call.op \in {"remove_edge", "remove_vertex"}
    /\ call.before # adjList
    /\ \E u \in DOMAIN adjList, v \in DOMAIN adjList :
          /\ u # v
          /\ Len(WeightsTo(adjList[u], v)) = 2
          /\ WeightsTo(adjList[u], v)[1] # WeightsTo(adjList[u], v)[2]

\* C29: whatever mutators and algorithm calls were made, every neighbour key
\* in any vertex's list is itself a key of the adjacency mapping, in directed
\* and undirected graphs.
C29_NoDanglingTargets ==
    \A u \in DOMAIN adjList :
        \A i \in 1 .. Len(adjList[u]) : adjList[u][i][1] \in DOMAIN adjList

\* a directed graph with arcs, after a shortest_path call that registered a key
C29_Witness ==
    /\ directed
    /\ PathDone
    /\ adjList # call.before
    /\ \E a \in Arcs(adjList) : a[1] # a[2]

\* -------------------------------------------------------------------- C30
\* C30: for Car, Train, Yacht and Helicopter, after any setFuel(a) and
\* move(d), d >= 0, with a positive consumption rate: 0 <= fuel <=
\* fuelCapacity; a move with fuel > 0 advances the position by
\* min(d, fuel / rate) and lowers the fuel by rate times that distance, which
\* leaves exactly 0 when the requested distance needs more fuel than is left.
\* (The sums, products and quotients of the claim are read as the doubles
\* the program computes.)
C30_FuelWithinTank ==
    loc.kind \in Consuming =>
        /\ 0 <= loc.currentFuel
        /\ loc.currentFuel <= loc.fuelCapacity
        /\ (TransportCall("move") /\ call.before.currentFuel > 0) =>
              LET b == call.before
                  rate == b.fuelConsumptionRate
                  short == double_mul(call.arg, rate) > b.currentFuel
                  reach == double_div(b.currentFuel, rate)
                  dist == IF short THEN reach ELSE call.arg
              IN  /\ loc.position = double_add(b.position, dist)
                  /\ loc.currentFuel =
                        double_sub(b.currentFuel, double_mul(rate, dist))
                  /\ short => loc.currentFuel = 0

====
